---- MODULE Spec2Model ----
(***************************************************************************)
(* Voice-operated OTC trading bot (src/app.py): the conversation state     *)
(* machine behind /start-call, /webhook, /poll-messages and /end-call,     *)
(* run by concurrent request threads over one dict guarded by one lock.    *)
(*                                                                         *)
(* Text is a sequence of one-character strings, so that the substring      *)
(* tests and the regular expressions of the extractors are computed on     *)
(* characters as Python computes them.  An optional value (Python None or  *)
(* a value) is the empty sequence or a one-element sequence.  A number is  *)
(* a record [val, float]: val counts hundredths, float tells a Python      *)
(* float from a Python int (they print differently).                       *)
(***************************************************************************)
EXTENDS Integers, Sequences, FiniteSets, TLC

----------------------------------------------------------------------------
(* Optional values *)

None == << >>

Some(v) == << v >>

ValueOf(x) == x[1]

SetMax(S) == CHOOSE m \in S : \A k \in S : k <= m

SetMin(S) == CHOOSE m \in S : \A k \in S : m <= k

----------------------------------------------------------------------------
(* Characters and strings *)

LowerLetters ==
  <<"a","b","c","d","e","f","g","h","i","j","k","l","m",
    "n","o","p","q","r","s","t","u","v","w","x","y","z">>

UpperLetters ==
  <<"A","B","C","D","E","F","G","H","I","J","K","L","M",
    "N","O","P","Q","R","S","T","U","V","W","X","Y","Z">>

DigitChars == <<"0","1","2","3","4","5","6","7","8","9">>

Range(f) == { f[i] : i \in DOMAIN f }

IsLower(c) == c \in Range(LowerLetters)

IsUpper(c) == c \in Range(UpperLetters)

IsDigit(c) == c \in Range(DigitChars)

\* \s of the re module, over the characters an utterance is written in
IsSpace(c) == c = " "

\* \w of the re module
IsWordChar(c) == IsLower(c) \/ IsUpper(c) \/ IsDigit(c) \/ c = "_"

\* [A-Z0-9]
IsToken(c) == IsUpper(c) \/ IsDigit(c)

IndexIn(seq, c) == CHOOSE i \in DOMAIN seq : seq[i] = c

upper_char(c) == IF IsLower(c) THEN UpperLetters[IndexIn(LowerLetters, c)] ELSE c

lower_char(c) == IF IsUpper(c) THEN LowerLetters[IndexIn(UpperLetters, c)] ELSE c

\* str.upper()
upper(s) == [i \in 1..Len(s) |-> upper_char(s[i])]

\* str.lower()
lower(s) == [i \in 1..Len(s) |-> lower_char(s[i])]

\* s[i:i+n] = lit
LitAt(s, i, lit) ==
  /\ i >= 1
  /\ i + Len(lit) - 1 <= Len(s)
  /\ \A k \in 1..Len(lit) : s[i + k - 1] = lit[k]

\* Python's `lit in s`
Contains(s, lit) == \E i \in 1..(Len(s) + 1) : LitAt(s, i, lit)

\* str.strip()
strip(s) ==
  LET keep == { i \in 1..Len(s) : ~IsSpace(s[i]) }
  IN  IF keep = {} THEN << >> ELSE SubSeq(s, SetMin(keep), SetMax(keep))

\* \b before position i (i = Len(s) + 1 is the end of the string)
WordAt(s, i) == i >= 1 /\ i <= Len(s) /\ IsWordChar(s[i])

AtWordBoundary(s, i) == WordAt(s, i - 1) # WordAt(s, i)

\* n characters from position i all satisfy the class
SpaceRun(s, i, n) == i + n - 1 <= Len(s) /\ \A k \in i..(i + n - 1) : IsSpace(s[k])

TokenRun(s, i, n) == i + n - 1 <= Len(s) /\ \A k \in i..(i + n - 1) : IsToken(s[k])

DigitRun(s, i, n) == i + n - 1 <= Len(s) /\ \A k \in i..(i + n - 1) : IsDigit(s[k])

\* str.replace(old, new): non-overlapping occurrences, left to right
RECURSIVE ReplaceFrom(_, _, _, _)
ReplaceFrom(s, i, old, new) ==
  IF i > Len(s) THEN << >>
  ELSE IF LitAt(s, i, old) THEN new \o ReplaceFrom(s, i + Len(old), old, new)
  ELSE << s[i] >> \o ReplaceFrom(s, i + 1, old, new)

str_replace(s, old, new) == ReplaceFrom(s, 1, old, new)

\* re.sub(r'\bWORD\b', new, s)
RECURSIVE SubWordFrom(_, _, _, _)
SubWordFrom(s, i, word, new) ==
  IF i > Len(s) THEN << >>
  ELSE IF /\ LitAt(s, i, word)
          /\ AtWordBoundary(s, i)
          /\ AtWordBoundary(s, i + Len(word))
       THEN new \o SubWordFrom(s, i + Len(word), word, new)
  ELSE << s[i] >> \o SubWordFrom(s, i + 1, word, new)

re_sub_word(s, word, new) == SubWordFrom(s, 1, word, new)

\* re.sub(r'[,$...]', '', s): drop the characters of a class. The alphabet of
\* the model is ASCII, so of the source's class only "," and "$" can occur.
RECURSIVE DropChars(_, _)
DropChars(s, class) ==
  IF s = << >> THEN << >>
  ELSE (IF Head(s) \in class THEN << >> ELSE << Head(s) >>) \o DropChars(Tail(s), class)

\* str.split(): the maximal runs of non-space characters
RECURSIVE SplitFrom(_, _, _)
SplitFrom(s, i, cur) ==
  IF i > Len(s) THEN (IF cur = << >> THEN << >> ELSE << cur >>)
  ELSE IF IsSpace(s[i])
       THEN (IF cur = << >> THEN << >> ELSE << cur >>) \o SplitFrom(s, i + 1, << >>)
       ELSE SplitFrom(s, i + 1, Append(cur, s[i]))

split(s) == SplitFrom(s, 1, << >>)

----------------------------------------------------------------------------
(* Numbers: parsing and formatting *)

\* hundredths per unit: the utterances carry at most two decimals
Scale == 100

DigitValue(c) == IndexIn(DigitChars, c) - 1

RECURSIVE IntOf(_)
IntOf(ds) == IF ds = << >> THEN 0
             ELSE 10 * IntOf(SubSeq(ds, 1, Len(ds) - 1)) + DigitValue(ds[Len(ds)])

FracOf(ds) ==
  (IF Len(ds) >= 1 THEN 10 * DigitValue(ds[1]) ELSE 0)
  + (IF Len(ds) >= 2 THEN DigitValue(ds[2]) ELSE 0)

\* float("12.5"), float("12")
float_of(ints, fracs) == [val |-> Scale * IntOf(ints) + FracOf(fracs), float |-> TRUE]

\* a Python int
int_num(n) == [val |-> Scale * n, float |-> FALSE]

\* truth value of a number: 0 and 0.0 are false
Truthy(num) == num.val # 0

RECURSIVE Digits(_)
Digits(n) == IF n < 10 THEN << DigitChars[n + 1] >>
             ELSE Append(Digits(n \div 10), DigitChars[(n % 10) + 1])

\* str(x) as used by f"{x}": 0.5 -> "0.5", 65000.0 -> "65000.0", 2 -> "2"
py_str(num) ==
  LET whole == num.val \div Scale
      h     == num.val % Scale
  IN  IF ~num.float THEN Digits(whole)
      ELSE Digits(whole) \o << "." >> \o
           (IF h % 10 = 0 THEN Digits(h \div 10)
            ELSE << DigitChars[(h \div 10) + 1], DigitChars[(h % 10) + 1] >>)

\* f"{x:.2f}": 65000.0 -> "65000.00"
fmt_2f(num) ==
  LET whole == num.val \div Scale
      h     == num.val % Scale
  IN  Digits(whole) \o << ".", DigitChars[(h \div 10) + 1], DigitChars[(h % 10) + 1] >>

\* length of the longest digit run starting at i (0 if s[i] is no digit)
DigitRunLen(s, i) == SetMax({ n \in 0..(Len(s) - i + 1) : DigitRun(s, i, n) })

\* the match of \d+(?:\.\d+)? at position i: <<length, number>>, i on a digit
NumberAt(s, i) ==
  LET d == DigitRunLen(s, i)
      f == IF i + d <= Len(s) /\ s[i + d] = "." THEN DigitRunLen(s, i + d + 1) ELSE 0
  IN  IF f > 0
      THEN << d + 1 + f, float_of(SubSeq(s, i, i + d - 1), SubSeq(s, i + d + 1, i + d + f)) >>
      ELSE << d, float_of(SubSeq(s, i, i + d - 1), << >>) >>

\* [float(n) for n in re.findall(r'\d+(?:\.\d+)?', s)]
RECURSIVE FindNumbersFrom(_, _)
FindNumbersFrom(s, i) ==
  IF i > Len(s) THEN << >>
  ELSE IF IsDigit(s[i])
       THEN << NumberAt(s, i)[2] >> \o FindNumbersFrom(s, i + NumberAt(s, i)[1])
       ELSE FindNumbersFrom(s, i + 1)

find_numbers(s) == FindNumbersFrom(s, 1)

----------------------------------------------------------------------------
(* Tables of src/app.py *)

correction_keywords ==
  << <<"i"," ","m","e","a","n","t">>,
     <<"a","c","t","u","a","l","l","y">>,
     <<"i","n","s","t","e","a","d">>,
     <<"c","h","a","n","g","e"," ","t","o">>,
     <<"c","o","r","r","e","c","t"," ","t","o">>,
     <<"n","o",",">>,
     <<"n","o","t">>,
     <<"m","i","s","t","a","k","e">>,
     <<"w","r","o","n","g">> >>

ExchangeIds == <<"okx", "bybit", "deribit", "binance">>

exchange_display_names ==
  [e \in Range(ExchangeIds) |->
     CASE e = "okx"     -> <<"O","K","X">>
       [] e = "bybit"   -> <<"B","y","b","i","t">>
       [] e = "deribit" -> <<"D","e","r","i","b","i","t">>
       [] e = "binance" -> <<"B","i","n","a","n","c","e">>]

mispronunciations ==
  << [mis |-> <<"e"," ","t"," ","h">>, correct |-> <<"E","T","H">>],
     [mis |-> <<"b"," ","t"," ","c">>, correct |-> <<"B","T","C">>],
     [mis |-> <<"u"," ","s"," ","d"," ","t">>, correct |-> <<"U","S","D","T">>],
     [mis |-> <<"u"," ","s"," ","d">>, correct |-> <<"U","S","D">>],
     [mis |-> <<"u"," ","s"," ","D","T","P","L">>, correct |-> <<"U","S","D","T">>],
     [mis |-> <<"b","i","t"," ","c","o","i","n">>, correct |-> <<"B","T","C">>],
     [mis |-> <<"e","t","h","e","r">>, correct |-> <<"E","T","H">>] >>

\* the spoken variants of each exchange, in the dict's iteration order
exchanges ==
  << [exc |-> "okx", variants |->
        << <<"o","k","x">>,
           <<"o","k","a","y"," ","e","x">>,
           <<"o","k","a","y"," ","x">>,
           <<"o"," ","k"," ","x">>,
           <<"o","k"," ","e","x">>,
           <<"o","k"," ","x">> >>],
     [exc |-> "bybit", variants |->
        << <<"b","y","b","i","t">>,
           <<"b","u","y"," ","b","i","t">>,
           <<"b","y"," ","b","i","t">> >>],
     [exc |-> "deribit", variants |->
        << <<"d","e","r","i","b","i","t">>,
           <<"d","a","i","r","y"," ","b","i","t">>,
           <<"d","e","r","i"," ","b","i","t">> >>],
     [exc |-> "binance", variants |->
        << <<"b","i","n","a","n","c","e">>,
           <<"f","i","n","a","n","c","e">>,
           <<"b","y"," ","n","a","n","c","e">> >>] >>

----------------------------------------------------------------------------
(* Extractors *)

\* the first exchange of the table one of whose variants is in the transcript
extract_exchange(transcript) ==
  LET transcript_l == lower(transcript)
      hits == { k \in DOMAIN exchanges :
                  \E v \in DOMAIN exchanges[k].variants :
                     Contains(transcript_l, exchanges[k].variants[v]) }
  IN  IF hits = {} THEN None ELSE Some(exchanges[SetMin(hits)].exc)

\* any(keyword in transcript_lower for keyword in correction_keywords)
is_correction_of(transcript) ==
  \E k \in DOMAIN correction_keywords : Contains(lower(transcript), correction_keywords[k])

\* the token lengths n in 2..6 with which ([A-Z0-9]{2,6}) can match at j,
\* followed by \b when the pattern asks for it
QuoteLens(s, j, bounded) ==
  { n \in 2..6 : TokenRun(s, j, n) /\ (bounded => AtWordBoundary(s, j + n)) }

\* pattern 1, \b([A-Z0-9]{2,6})\s*[/\- ]\s*([A-Z0-9]{2,6})\b, after the separator
StdTrail(s, j) == { b \in 0..Len(s) : SpaceRun(s, j, b) /\ QuoteLens(s, j + b, TRUE) # {} }

\* pattern 1 after the base token: a spaces, then one of / - space
StdLead(s, j) ==
  { a \in 0..Len(s) : /\ SpaceRun(s, j, a)
                      /\ j + a <= Len(s)
                      /\ s[j + a] \in {"/", "-", " "}
                      /\ StdTrail(s, j + a + 1) # {} }

StdBase(s, i) == { n \in 2..6 : TokenRun(s, i, n) /\ StdLead(s, i + n) # {} }

\* the groups of a match: the base token of length n1 at i, the quote token,
\* as long as it can be, at q
Groups(s, i, n1, q, bounded) ==
  Some([base  |-> SubSeq(s, i, i + n1 - 1),
        quote |-> SubSeq(s, q, q + SetMax(QuoteLens(s, q, bounded)) - 1)])

\* pattern 1 from the separator at j on: the longest run of spaces after it
StdAfterSep(s, i, n1, j) == Groups(s, i, n1, j + 1 + SetMax(StdTrail(s, j + 1)), TRUE)

\* pattern 1 after a base token of length n1: the longest run of spaces
StdAfterBase(s, i, n1) == StdAfterSep(s, i, n1, i + n1 + SetMax(StdLead(s, i + n1)))

\* the match of pattern 1 at position i, every quantifier greedy
MatchStandard(s, i) ==
  IF AtWordBoundary(s, i) /\ StdBase(s, i) # {}
  THEN StdAfterBase(s, i, SetMax(StdBase(s, i)))
  ELSE None

\* patterns 2..5: [pre \s+] ([A-Z0-9]{2,6}) \s+ mid \s+ ([A-Z0-9]{2,6})
KwTrail(s, j) == { c \in 1..Len(s) : SpaceRun(s, j, c) /\ QuoteLens(s, j + c, FALSE) # {} }

KwMid(s, j, mid) ==
  { m \in 1..Len(s) : /\ SpaceRun(s, j, m)
                      /\ LitAt(s, j + m, mid)
                      /\ KwTrail(s, j + m + Len(mid)) # {} }

KwBase(s, j, mid) == { n \in 2..6 : TokenRun(s, j, n) /\ KwMid(s, j + n, mid) # {} }

KwPre(s, i, pre, mid) ==
  IF pre = << >>
  THEN (IF KwBase(s, i, mid) # {} THEN {0} ELSE {})
  ELSE { p \in (Len(pre) + 1)..Len(s) :
           /\ LitAt(s, i, pre)
           /\ SpaceRun(s, i + Len(pre), p - Len(pre))
           /\ KwBase(s, i + p, mid) # {} }

\* patterns 2..5 after the middle word, which ends before j
KwAfterMid(s, i, n1, j) == Groups(s, i, n1, j + SetMax(KwTrail(s, j)), FALSE)

\* patterns 2..5 after a base token of length n1 at i, which ends before j
KwAfterBase(s, i, n1, j, mid) ==
  KwAfterMid(s, i, n1, j + SetMax(KwMid(s, j, mid)) + Len(mid))

\* patterns 2..5 with the base token at i
KwFromBase(s, i, mid) ==
  KwAfterBase(s, i, SetMax(KwBase(s, i, mid)), i + SetMax(KwBase(s, i, mid)), mid)

\* the match of one of patterns 2..5 at position i, every quantifier greedy
MatchKeyword(s, i, pre, mid) ==
  IF KwPre(s, i, pre, mid) # {}
  THEN KwFromBase(s, i + SetMax(KwPre(s, i, pre, mid)), mid)
  ELSE None

\* the patterns list of extract_trading_pair, in order; the literal words are
\* lower case in the source
patterns ==
  << [std |-> TRUE,  pre |-> << >>, mid |-> << >>],
     [std |-> FALSE, pre |-> <<"t","r","a","d","e">>, mid |-> <<"w","i","t","h">>],
     [std |-> FALSE, pre |-> <<"t","r","a","d","e">>, mid |-> <<"a","g","a","i","n","s","t">>],
     [std |-> FALSE, pre |-> << >>, mid |-> <<"t","o">>],
     [std |-> FALSE, pre |-> << >>, mid |-> <<"v","e","r","s","u","s">>] >>

MatchAt(s, i, pat) ==
  IF pat.std THEN MatchStandard(s, i) ELSE MatchKeyword(s, i, pat.pre, pat.mid)

\* re.search(pattern, s): the match at the leftmost position that has one
RECURSIVE SearchFrom(_, _, _)
SearchFrom(s, i, pat) ==
  IF i > Len(s) THEN None
  ELSE IF MatchAt(s, i, pat) # None THEN MatchAt(s, i, pat)
  ELSE SearchFrom(s, i + 1, pat)

re_search(s, pat) == SearchFrom(s, 1, pat)

\* for mis, correct in mispronunciations.items(): the entries from the k-th on.
\* (Each intermediate text is bound as the element of a singleton set, so that
\* it is computed once.)
RECURSIVE ApplyMispronunciations(_, _)
ApplyMispronunciations(s, k) ==
  IF k > Len(mispronunciations) THEN s
  ELSE CHOOSE r \in
         { ApplyMispronunciations(t, k + 1) :
             t \in { str_replace(s, upper(mispronunciations[k].mis),
                                 mispronunciations[k].correct) } } : TRUE

\* f"{base}/{quote}" of a match
pair_result(match) == Some(ValueOf(match).base \o << "/" >> \o ValueOf(match).quote)

\* the loop over patterns of extract_trading_pair, on the normalised text, from
\* the k-th pattern on
RECURSIVE first_match(_, _)
first_match(text, k) ==
  IF k > Len(patterns) THEN None
  ELSE IF re_search(text, patterns[k]) # None
       THEN pair_result(re_search(text, patterns[k]))
  ELSE first_match(text, k + 1)

extract_trading_pair(transcript) ==
  CHOOSE r \in
    { first_match(t4, 1) :
        t4 \in { ApplyMispronunciations(t3, 1) :
          t3 \in { re_sub_word(t2, <<"H","Y","P","H","E","N">>, <<"-">>) :
            t2 \in { re_sub_word(t1, <<"D","A","S","H">>, <<"-">>) :
              t1 \in { re_sub_word(t0, <<"S","L","A","S","H">>, <<"/">>) :
                t0 \in { upper(transcript) } } } } } } : TRUE

\* the words word2number knows, as far as the utterances use them
number_words ==
  << [word |-> <<"z","e","r","o">>, num |-> 0],
     [word |-> <<"o","n","e">>, num |-> 1],
     [word |-> <<"t","w","o">>, num |-> 2],
     [word |-> <<"f","i","v","e">>, num |-> 5] >>

\* w2n.word_to_num(s): the number words among the words of s; ValueError
\* (None here) when there is none.  One number word at most per utterance.
w2n_word_to_num(s) ==
  LET words == split(lower(s))
      hits  == { k \in DOMAIN number_words :
                   \E j \in DOMAIN words : words[j] = number_words[k].word }
  IN  IF hits = {} THEN None ELSE Some(int_num(number_words[SetMin(hits)].num))

extract_number(transcript) ==
  LET clean_str == DropChars(transcript, {",", "$"})
      at == { i \in 1..Len(clean_str) : IsDigit(clean_str[i]) }
  IN  IF at # {} THEN Some(NumberAt(clean_str, SetMin(at))[2])
      ELSE w2n_word_to_num(clean_str)

\* line 250: the numbers of the transcript, or [extract_number(transcript)]
numbers_of(transcript) ==
  LET found == find_numbers(lower(transcript))
  IN  IF found # << >> THEN [i \in DOMAIN found |-> Some(found[i])]
      ELSE << extract_number(transcript) >>

\* 'at' in transcript_lower
has_at(transcript) == Contains(lower(transcript), <<"a","t">>)

\* line 252
qty_of(numbers, at) == IF numbers # << >> /\ ~at THEN numbers[1] ELSE None

\* a price candidate that ignores whether a quantity is already held
price_of_any_number(numbers, at, quantity) ==
  IF numbers # << >> /\ at THEN numbers[Len(numbers)]
  ELSE IF numbers # << >> THEN numbers[1]
       ELSE None

\* line 253; quantity is the session's quantity slot when the turn starts
price_of(numbers, at, quantity) ==
  IF numbers # << >> /\ at THEN numbers[Len(numbers)]
  ELSE IF numbers # << >> /\ quantity # None /\ Truthy(ValueOf(quantity))
       THEN numbers[1]
       ELSE None

\* lines 241-250: what a turn reads off the transcript alone
extract(transcript) ==
  [ is_correction |-> is_correction_of(transcript),
    exch          |-> extract_exchange(transcript),
    symbol        |-> extract_trading_pair(transcript),
    numbers       |-> numbers_of(transcript),
    at            |-> has_at(transcript) ]

----------------------------------------------------------------------------
(* Bounds and inputs *)

\* request threads of the server (app.run(threaded=True))
NumWorkers == 2

\* sessions created in a run
MaxSessions == 2

\* utterances accepted in a run of the concurrent specification
MaxTurns == 2

\* utterances accepted in the one-client dialogue specification
DialogTurns == 4

\* the clock advances in steps of TickStep seconds, MaxTicks times at most
TickStep == 300

MaxTicks == 2

Workers == 1..NumWorkers

\* 0 stands for a request without call_id; ids above next_id are unknown ids
CallIds == 0..MaxSessions

U_trade_on_okx ==
  <<"I"," ","w","a","n","t"," ","t","o"," ","t","r","a","d","e"," ","o","n"," ","O","K","X">>

U_btc_usdt == <<"B","T","C","/","U","S","D","T">>

U_half == <<"0",".","5">>

U_at_65000 == <<"a","t"," ","6","5","0","0","0">>

U_actually_eth ==
  <<"a","c","t","u","a","l","l","y"," ","m","a","k","e"," ","i","t"," ",
    "E","T","H","/","U","S","D","T">>

U_no_bybit == <<"n","o",","," ","b","y","b","i","t">>

U_actually_2 == <<"a","c","t","u","a","l","l","y"," ","2">>

U_hello == <<"h","e","l","l","o">>

U_order ==
  <<"t","r","a","d","e"," ","0",".","5"," ","B","T","C","/","U","S","D","T"," ",
    "o","n"," ","o","k","x">>

\* what one client may say in the dialogue specification
DialogUtterances ==
  { U_trade_on_okx, U_btc_usdt, U_half, U_at_65000, U_actually_eth,
    U_no_bybit, U_actually_2, U_hello }

\* what the concurrent clients may say
CoreUtterances == { U_order, U_at_65000 }

\* what exchange.fetch_ticker yields: an exception (None here) or a last price
MarketPrice == [val |-> 6512345, float |-> TRUE]

ZeroPrice == [val |-> 0, float |-> TRUE]

TickerOutcomes == { None, Some(MarketPrice), Some(ZeroPrice) }

AllUtterances == DialogUtterances \cup CoreUtterances

\* the extractors are functions of the text: each is computed once per text
StripTable == [u \in AllUtterances |-> strip(u)]

ExtractTable == [t \in Range(StripTable) |-> extract(t)]

----------------------------------------------------------------------------
(* State *)

VARIABLES
  conversation_state,  \* call id -> session dict
  state_lock,          \* 0 when free, else the worker inside `with state_lock`
  now,                 \* time.time()
  next_id,             \* the next fresh call id (uuid4 never repeats)
  pc,                  \* where each worker's handler stands
  local,               \* the local variables of each worker's handler
  ret                  \* the response the last step sent, NoResponse if it sent none

vars == << conversation_state, state_lock, now, next_id, pc, local, ret >>

Free == 0

\* retention window of cleanup_old_states, in seconds
Retention == 300

\* defaults of get_current_price
retries == 3

initial_delay == 1

SlotNames == << "exchange", "trading_pair", "quantity", "price" >>

\* A message of the history is its sender and its text; the timestamp the
\* source stores with it is never read by the handlers and is left out.
Greeting == [kind |-> "greeting"]

UserText(t) == [kind |-> "utterance", chars |-> t]

NoLocal ==
  [ call_id |-> 0, transcript |-> << >>, is_correction |-> FALSE,
    exch |-> None, symbol |-> None, qty |-> None, price |-> None,
    updated_slots |-> << >>, bot_response |-> [kind |-> "none"],
    symbol_arg |-> << >>, attempt |-> 0, delay |-> 0, waits |-> << >>,
    current_price |-> None, error |-> None ]

NoResponse == [op |-> "none"]

Init ==
  /\ conversation_state = << >>
  /\ state_lock = Free
  /\ now = 0
  /\ next_id = 1
  /\ pc = [w \in Workers |-> "idle"]
  /\ local = [w \in Workers |-> NoLocal]
  /\ ret = NoResponse

Sessions == DOMAIN conversation_state

----------------------------------------------------------------------------
(* start_call *)

new_session(created) ==
  [ exchange |-> None, trading_pair |-> None, quantity |-> None, price |-> None,
    messages |-> << [sender |-> "bot", text |-> Greeting] >>,
    ended |-> FALSE, created |-> created,
    current_step |-> "exchange", retry_count |-> 0 ]

\* put a value under a key of the dict
DictSet(d, k, v) == [x \in (DOMAIN d) \cup {k} |-> IF x = k THEN v ELSE d[x]]

\* del d[k] for every k of ks
DictDel(d, ks) == [x \in (DOMAIN d) \ ks |-> d[x]]

StartCall(w, limit) ==
  /\ pc[w] = "idle"
  /\ state_lock = Free
  /\ next_id <= limit
  /\ conversation_state' = DictSet(conversation_state, next_id, new_session(now))
  /\ next_id' = next_id + 1
  /\ ret' = [op |-> "start_call", worker |-> w, status |-> 200, call_id |-> next_id]
  /\ UNCHANGED << state_lock, now, pc, local >>

----------------------------------------------------------------------------
(* cleanup_old_states, poll_messages, end_call *)

\* the condition of line 173 without its `ended` half
expired_by_age_alone(state, t) == t - state.created > Retention

expired(state, t) == state.ended /\ t - state.created > Retention

cleanup_old_states(d, t) == DictDel(d, { c \in DOMAIN d : expired(d[c], t) })

\* poll_messages up to the end of cleanup_old_states()
PollCleanup(w, c) ==
  /\ pc[w] = "idle"
  /\ state_lock = Free
  /\ conversation_state' = cleanup_old_states(conversation_state, now)
  /\ pc' = [pc EXCEPT ![w] = "poll_read"]
  /\ local' = [local EXCEPT ![w] = [NoLocal EXCEPT !.call_id = c]]
  /\ ret' = NoResponse
  /\ UNCHANGED << state_lock, now, next_id >>

\* poll_messages, the second `with state_lock`
PollRead(w) ==
  /\ pc[w] = "poll_read"
  /\ state_lock = Free
  /\ LET c == local[w].call_id
     IN  ret' = IF c \notin Sessions
                THEN [op |-> "poll_messages", worker |-> w, status |-> 404, call_id |-> c]
                ELSE [op |-> "poll_messages", worker |-> w, status |-> 200, call_id |-> c,
                      messages |-> conversation_state[c].messages,
                      ended |-> conversation_state[c].ended]
  /\ pc' = [pc EXCEPT ![w] = "idle"]
  /\ local' = [local EXCEPT ![w] = NoLocal]
  /\ UNCHANGED << conversation_state, state_lock, now, next_id >>

\* end_call that also resets retry_count, as finalization does
EndCall_clears_retry(w, c) ==
  /\ pc[w] = "idle"
  /\ state_lock = Free
  /\ IF c \in Sessions
     THEN /\ conversation_state' = [conversation_state EXCEPT ![c].ended = TRUE,
                                                             ![c].retry_count = 0]
          /\ ret' = [op |-> "end_call", worker |-> w, status |-> 200, call_id |-> c]
     ELSE /\ UNCHANGED conversation_state
          /\ ret' = [op |-> "end_call", worker |-> w, status |-> 404, call_id |-> c]
  /\ UNCHANGED << state_lock, now, next_id, pc, local >>

\* end_call entered without waiting for state_lock
EndCall_without_lock(w, c) ==
  /\ pc[w] = "idle"
  /\ IF c \in Sessions
     THEN /\ conversation_state' = [conversation_state EXCEPT ![c].ended = TRUE]
          /\ ret' = [op |-> "end_call", worker |-> w, status |-> 200, call_id |-> c]
     ELSE /\ UNCHANGED conversation_state
          /\ ret' = [op |-> "end_call", worker |-> w, status |-> 404, call_id |-> c]
  /\ UNCHANGED << state_lock, now, next_id, pc, local >>

\* lines 367-378
EndCall(w, c) ==
  /\ pc[w] = "idle"
  /\ state_lock = Free
  /\ IF c \in Sessions
     THEN /\ conversation_state' = [conversation_state EXCEPT ![c].ended = TRUE]
          /\ ret' = [op |-> "end_call", worker |-> w, status |-> 200, call_id |-> c]
     ELSE /\ UNCHANGED conversation_state
          /\ ret' = [op |-> "end_call", worker |-> w, status |-> 404, call_id |-> c]
  /\ UNCHANGED << state_lock, now, next_id, pc, local >>

\* time passes
Tick ==
  /\ now < MaxTicks * TickStep
  /\ now' = now + TickStep
  /\ ret' = NoResponse
  /\ UNCHANGED << conversation_state, state_lock, next_id, pc, local >>

----------------------------------------------------------------------------
(* webhook *)

Fragment(slot, value) == [slot |-> slot, value |-> value]

\* update_slots with the `is None` guards of lines 275-284 left out: ordinary
\* input overwrites like a correction
update_slots_always(state, is_correction, exch, symbol, qty, price) ==
  [ state |->
      [state EXCEPT !.exchange     = IF exch # None THEN exch ELSE @,
                    !.trading_pair = IF symbol # None THEN symbol ELSE @,
                    !.quantity     = IF qty # None THEN qty ELSE @,
                    !.price        = IF price # None THEN price ELSE @],
    updated_slots |->
      (IF exch # None
       THEN << Fragment("exchange", exchange_display_names[ValueOf(exch)]) >>
       ELSE << >>)
      \o (IF symbol # None THEN << Fragment("trading pair", ValueOf(symbol)) >> ELSE << >>)
      \o (IF qty # None THEN << Fragment("quantity", py_str(ValueOf(qty))) >> ELSE << >>)
      \o (IF price # None THEN << Fragment("price", py_str(ValueOf(price))) >> ELSE << >>) ]

\* update_slots with the correction branch of lines 259-272 left out: a
\* correction only fills unset slots
update_slots_fill_only(state, is_correction, exch, symbol, qty, price) ==
  LET set_exchange == state.exchange = None /\ exch # None
      set_pair     == state.trading_pair = None /\ symbol # None
      set_quantity == state.quantity = None /\ qty # None
      set_price    == state.price = None /\ price # None
  IN  [ state |->
          [state EXCEPT !.exchange     = IF set_exchange THEN exch ELSE @,
                        !.trading_pair = IF set_pair THEN symbol ELSE @,
                        !.quantity     = IF set_quantity THEN qty ELSE @,
                        !.price        = IF set_price THEN price ELSE @],
        updated_slots |->
          (IF set_exchange
           THEN << Fragment("exchange", exchange_display_names[ValueOf(exch)]) >>
           ELSE << >>)
          \o (IF set_pair THEN << Fragment("trading pair", ValueOf(symbol)) >> ELSE << >>)
          \o (IF set_quantity THEN << Fragment("quantity", py_str(ValueOf(qty))) >> ELSE << >>)
          \o (IF set_price THEN << Fragment("price", py_str(ValueOf(price))) >> ELSE << >>) ]

\* lines 259-286: the slots after the turn and the list of updates
update_slots(state, is_correction, exch, symbol, qty, price) ==
  LET set_exchange == IF is_correction THEN exch # None
                      ELSE state.exchange = None /\ exch # None
      set_pair     == IF is_correction THEN symbol # None
                      ELSE state.trading_pair = None /\ symbol # None
      set_quantity == IF is_correction THEN qty # None
                      ELSE state.quantity = None /\ qty # None
      set_price    == IF is_correction THEN price # None
                      ELSE state.price = None /\ price # None
  IN  [ state |->
          [state EXCEPT !.exchange     = IF set_exchange THEN exch ELSE @,
                        !.trading_pair = IF set_pair THEN symbol ELSE @,
                        !.quantity     = IF set_quantity THEN qty ELSE @,
                        !.price        = IF set_price THEN price ELSE @],
        updated_slots |->
          (IF set_exchange
           THEN << Fragment("exchange", exchange_display_names[ValueOf(exch)]) >>
           ELSE << >>)
          \o (IF set_pair THEN << Fragment("trading pair", ValueOf(symbol)) >> ELSE << >>)
          \o (IF set_quantity THEN << Fragment("quantity", py_str(ValueOf(qty))) >> ELSE << >>)
          \o (IF set_price THEN << Fragment("price", py_str(ValueOf(price))) >> ELSE << >>) ]

\* missing_slots with the priority list of line 292 written backwards
missing_slots_reversed(state) ==
  SelectSeq(<< "price", "quantity", "trading_pair", "exchange" >>, LAMBDA sl : state[sl] = None)

\* line 292
missing_slots(state) == SelectSeq(SlotNames, LAMBDA sl : state[sl] = None)

Min(a, b) == IF a <= b THEN a ELSE b

\* prompt_response with prompt_idx = retry_count, without the min of line 343
prompt_response_uncapped(state, next_step, updated_slots) ==
  IF updated_slots # << >> \/ state.retry_count > 0
  THEN [ kind |-> "prompt", ack |-> updated_slots, step |-> next_step,
         idx |-> state.retry_count,
         pair |-> IF next_step = "quantity" THEN state.trading_pair ELSE None ]
  ELSE [ kind |-> "fallback" ]

\* lines 317-344: the reply of a turn that leaves a slot missing.  A prompt is
\* prompts[step][idx] after the acknowledgment; only the quantity prompts
\* interpolate the trading pair.
prompt_response(state, next_step, updated_slots) ==
  LET prompt_idx == Min(state.retry_count, 2)
  IN  IF updated_slots # << >> \/ prompt_idx > 0
      THEN [ kind |-> "prompt", ack |-> updated_slots, step |-> next_step,
             idx |-> prompt_idx,
             pair |-> IF next_step = "quantity" THEN state.trading_pair ELSE None ]
      ELSE [ kind |-> "fallback" ]

\* lines 296-304: the order confirmation
confirmation(state, current_price, error) ==
  [ kind |-> "confirm",
    quantity |-> py_str(ValueOf(state.quantity)),
    trading_pair |-> ValueOf(state.trading_pair),
    exchange_display |-> exchange_display_names[ValueOf(state.exchange)],
    price |-> fmt_2f(ValueOf(state.price)),
    market |-> IF current_price # None /\ Truthy(ValueOf(current_price))
               THEN Some(fmt_2f(ValueOf(current_price))) ELSE None,
    warning |-> IF current_price # None /\ Truthy(ValueOf(current_price))
                THEN None ELSE Some(error) ]

normalize_symbol(exchange_name, symbol) == str_replace(symbol, << "/" >>, << >>)

\* utterances accepted by the stored sessions, or about to be
Submitted ==
  Cardinality({ ci \in Sessions \X (1..(2 * DialogTurns + 3)) :
                  /\ ci[2] \in DOMAIN conversation_state[ci[1]].messages
                  /\ conversation_state[ci[1]].messages[ci[2]].sender = "user" })
  + Cardinality({ w \in Workers : pc[w] \in {"wh_enter", "wh_turn"} })

\* lines 218-225: the request arrives; the dict is read without the lock
WebhookValidate(w, c, t, turns) ==
  /\ pc[w] = "idle"
  /\ c \in Sessions /\ ~conversation_state[c].ended => Submitted < turns
  /\ IF c = 0 \/ c \notin Sessions
     THEN /\ ret' = [op |-> "webhook", worker |-> w, status |-> 400, call_id |-> c,
                     error |-> "Invalid or missing call_id"]
          /\ UNCHANGED << pc, local >>
     ELSE /\ pc' = [pc EXCEPT ![w] = "wh_enter"]
          /\ local' = [local EXCEPT ![w] = [NoLocal EXCEPT !.call_id = c,
                                                           !.transcript = StripTable[t]]]
          /\ ret' = NoResponse
  /\ UNCHANGED << conversation_state, state_lock, now, next_id >>

\* WebhookEnter without the ended check of lines 230-232
WebhookEnter_no_ended_check(w) ==
  /\ pc[w] = "wh_enter"
  /\ state_lock = Free
  /\ LET c == local[w].call_id
     IN  IF c \notin Sessions
         THEN /\ ret' = [op |-> "webhook", worker |-> w, status |-> 500, call_id |-> c,
                         error |-> "KeyError"]
              /\ pc' = [pc EXCEPT ![w] = "idle"]
              /\ local' = [local EXCEPT ![w] = NoLocal]
              /\ UNCHANGED state_lock
         ELSE /\ state_lock' = w
              /\ pc' = [pc EXCEPT ![w] = "wh_turn"]
              /\ ret' = NoResponse
              /\ UNCHANGED local
  /\ UNCHANGED << conversation_state, now, next_id >>

\* WebhookEnter with the turn run outside `with state_lock`
WebhookEnter_no_lock(w) ==
  /\ pc[w] = "wh_enter"
  /\ LET c == local[w].call_id
     IN  IF c \notin Sessions
         THEN /\ ret' = [op |-> "webhook", worker |-> w, status |-> 500, call_id |-> c,
                         error |-> "KeyError"]
              /\ pc' = [pc EXCEPT ![w] = "idle"]
              /\ local' = [local EXCEPT ![w] = NoLocal]
         ELSE IF conversation_state[c].ended
         THEN /\ ret' = [op |-> "webhook", worker |-> w, status |-> 400, call_id |-> c,
                         error |-> "Session has ended"]
              /\ pc' = [pc EXCEPT ![w] = "idle"]
              /\ local' = [local EXCEPT ![w] = NoLocal]
         ELSE /\ pc' = [pc EXCEPT ![w] = "wh_turn"]
              /\ ret' = NoResponse
              /\ UNCHANGED local
  /\ UNCHANGED << conversation_state, state_lock, now, next_id >>

\* lines 227-232: take the lock and look the session up
WebhookEnter(w) ==
  /\ pc[w] = "wh_enter"
  /\ state_lock = Free
  /\ LET c == local[w].call_id
     IN  IF c \notin Sessions
         THEN \* conversation_state[call_id] raises KeyError; `with` releases
              /\ ret' = [op |-> "webhook", worker |-> w, status |-> 500, call_id |-> c,
                         error |-> "KeyError"]
              /\ pc' = [pc EXCEPT ![w] = "idle"]
              /\ local' = [local EXCEPT ![w] = NoLocal]
              /\ UNCHANGED state_lock
         ELSE IF conversation_state[c].ended
         THEN /\ ret' = [op |-> "webhook", worker |-> w, status |-> 400, call_id |-> c,
                         error |-> "Session has ended"]
              /\ pc' = [pc EXCEPT ![w] = "idle"]
              /\ local' = [local EXCEPT ![w] = NoLocal]
              /\ UNCHANGED state_lock
         ELSE /\ state_lock' = w
              /\ pc' = [pc EXCEPT ![w] = "wh_turn"]
              /\ ret' = NoResponse
              /\ UNCHANGED local
  /\ UNCHANGED << conversation_state, now, next_id >>

\* lines 310-314 with retry_count incremented on every turn that leaves a slot
\* missing, also when the turn updated a slot
advance_step_always_increment(state, next_step, updated_slots) ==
  [state EXCEPT !.current_step = next_step, !.retry_count = @ + 1]

\* lines 310-314 without the increment of retry_count
advance_step_no_increment(state, next_step, updated_slots) ==
  [state EXCEPT !.current_step = next_step]

\* lines 310-314: the step to prompt for, and the retry counter
advance_step(state, next_step, updated_slots) ==
  [state EXCEPT !.current_step = next_step,
                !.retry_count = IF updated_slots = << >> THEN @ + 1 ELSE @]

\* lines 234-292 and, when a slot is missing, 308-344
WebhookTurn(w) ==
  /\ pc[w] = "wh_turn"
  /\ \E found \in { ExtractTable[local[w].transcript] } :
     \E state1 \in { [conversation_state[local[w].call_id] EXCEPT !.messages =
                        Append(@, [sender |-> "user",
                                   text |-> UserText(local[w].transcript)])] } :
     \E qty \in { qty_of(found.numbers, found.at) } :
     \E price \in { price_of(found.numbers, found.at, state1.quantity) } :
     \E upd \in { update_slots(state1, found.is_correction, found.exch, found.symbol,
                               qty, price) } :
     \E missing \in { missing_slots(upd.state) } :
     \E frame \in { [local[w] EXCEPT !.is_correction = found.is_correction,
                                     !.exch = found.exch, !.symbol = found.symbol,
                                     !.qty = qty, !.price = price,
                                     !.updated_slots = upd.updated_slots] } :
       IF missing = << >>
       THEN \* line 295: call get_current_price
            /\ conversation_state' =
                 [conversation_state EXCEPT ![local[w].call_id] = upd.state]
            /\ local' = [local EXCEPT ![w] =
                           [frame EXCEPT !.symbol_arg =
                                            normalize_symbol(ValueOf(upd.state.exchange),
                                                             ValueOf(upd.state.trading_pair)),
                                         !.attempt = 0,
                                         !.delay = initial_delay]]
            /\ pc' = [pc EXCEPT ![w] = "gp_attempt"]
       ELSE \E state3 \in { advance_step(upd.state, missing[1], upd.updated_slots) } :
              /\ conversation_state' =
                   [conversation_state EXCEPT ![local[w].call_id] = state3]
              /\ local' = [local EXCEPT ![w] =
                             [frame EXCEPT !.bot_response =
                                prompt_response(state3, missing[1], upd.updated_slots)]]
              /\ pc' = [pc EXCEPT ![w] = "wh_respond"]
  /\ ret' = NoResponse
  /\ UNCHANGED << state_lock, now, next_id >>

\* get_current_price with `attempt < retries` at line 156: one retry too many
GetCurrentPrice_one_more_retry(w, outcome) ==
  /\ pc[w] = "gp_attempt"
  /\ IF outcome # None
     THEN /\ local' = [local EXCEPT ![w].current_price = outcome, ![w].error = None]
          /\ pc' = [pc EXCEPT ![w] = "wh_confirm"]
     ELSE IF local[w].attempt < retries
     THEN /\ local' = [local EXCEPT ![w].waits = Append(@, local[w].delay),
                                    ![w].delay = 2 * @,
                                    ![w].attempt = @ + 1]
          /\ UNCHANGED pc
     ELSE /\ local' = [local EXCEPT ![w].current_price = None,
                                    ![w].error = Some("failed to fetch price")]
          /\ pc' = [pc EXCEPT ![w] = "wh_confirm"]
  /\ ret' = NoResponse
  /\ UNCHANGED << conversation_state, state_lock, now, next_id >>

\* get_current_price, one pass of the retry loop (lines 145-160)
GetCurrentPrice(w, outcome) ==
  /\ pc[w] = "gp_attempt"
  /\ IF outcome # None
     THEN \* return float(ticker['last']), None
          /\ local' = [local EXCEPT ![w].current_price = outcome, ![w].error = None]
          /\ pc' = [pc EXCEPT ![w] = "wh_confirm"]
     ELSE IF local[w].attempt < retries - 1
     THEN \* time.sleep(delay); delay *= 2
          /\ local' = [local EXCEPT ![w].waits = Append(@, local[w].delay),
                                    ![w].delay = 2 * @,
                                    ![w].attempt = @ + 1]
          /\ UNCHANGED pc
     ELSE /\ local' = [local EXCEPT ![w].current_price = None,
                                    ![w].error = Some("failed to fetch price")]
          /\ pc' = [pc EXCEPT ![w] = "wh_confirm"]
  /\ ret' = NoResponse
  /\ UNCHANGED << conversation_state, state_lock, now, next_id >>

\* WebhookConfirm without line 306: the session is confirmed but not ended
WebhookConfirm_keeps_open(w) ==
  /\ pc[w] = "wh_confirm"
  /\ LET c == local[w].call_id
     IN  /\ local' = [local EXCEPT ![w].bot_response =
                        confirmation(conversation_state[c], local[w].current_price,
                                     local[w].error)]
         /\ conversation_state' = [conversation_state EXCEPT ![c].retry_count = 0]
  /\ pc' = [pc EXCEPT ![w] = "wh_respond"]
  /\ ret' = NoResponse
  /\ UNCHANGED << state_lock, now, next_id >>

\* WebhookConfirm giving up when the price lookup failed: no confirmation, the
\* session stays open
WebhookConfirm_abort_on_failure(w) ==
  /\ pc[w] = "wh_confirm"
  /\ LET c == local[w].call_id
     IN  IF local[w].error # None
         THEN /\ local' = [local EXCEPT ![w].bot_response = [kind |-> "fallback"]]
              /\ UNCHANGED conversation_state
         ELSE /\ local' = [local EXCEPT ![w].bot_response =
                             confirmation(conversation_state[c], local[w].current_price,
                                          local[w].error)]
              /\ conversation_state' = [conversation_state EXCEPT ![c].ended = TRUE,
                                                                  ![c].retry_count = 0]
  /\ pc' = [pc EXCEPT ![w] = "wh_respond"]
  /\ ret' = NoResponse
  /\ UNCHANGED << state_lock, now, next_id >>

\* lines 296-307
WebhookConfirm(w) ==
  /\ pc[w] = "wh_confirm"
  /\ LET c == local[w].call_id
     IN  /\ local' = [local EXCEPT ![w].bot_response =
                        confirmation(conversation_state[c], local[w].current_price,
                                     local[w].error)]
         /\ conversation_state' = [conversation_state EXCEPT ![c].ended = TRUE,
                                                             ![c].retry_count = 0]
  /\ pc' = [pc EXCEPT ![w] = "wh_respond"]
  /\ ret' = NoResponse
  /\ UNCHANGED << state_lock, now, next_id >>

\* lines 346-354: append the reply, leave the `with` block, answer
WebhookRespond(w) ==
  /\ pc[w] = "wh_respond"
  /\ LET c == local[w].call_id
     IN  /\ conversation_state' =
              [conversation_state EXCEPT ![c].messages =
                 Append(@, [sender |-> "bot", text |-> local[w].bot_response])]
         /\ ret' = [op |-> "webhook", worker |-> w, status |-> 200, call_id |-> c,
                    response |-> local[w].bot_response]
  /\ state_lock' = Free
  /\ pc' = [pc EXCEPT ![w] = "idle"]
  /\ local' = [local EXCEPT ![w] = NoLocal]
  /\ UNCHANGED << now, next_id >>

----------------------------------------------------------------------------
(* Specifications *)

\* the server under concurrent clients
Next ==
  \/ \E w \in Workers : StartCall(w, MaxSessions)
  \/ \E w \in Workers, c \in CallIds, t \in CoreUtterances : WebhookValidate(w, c, t, MaxTurns)
  \/ \E w \in Workers : WebhookEnter(w)
  \/ \E w \in Workers : WebhookTurn(w)
  \/ \E w \in Workers, o \in TickerOutcomes : GetCurrentPrice(w, o)
  \/ \E w \in Workers : WebhookConfirm(w)
  \/ \E w \in Workers : WebhookRespond(w)
  \/ \E w \in Workers, c \in CallIds : PollCleanup(w, c)
  \/ \E w \in Workers : PollRead(w)
  \/ \E w \in Workers, c \in CallIds : EndCall(w, c)
  \/ Tick

Spec == Init /\ [][Next]_vars

\* one client talking to one session through one worker, within one tick of
\* the clock
DialogNext ==
  \/ StartCall(1, 1)
  \/ \E c \in 0..1, t \in DialogUtterances : WebhookValidate(1, c, t, DialogTurns)
  \/ WebhookEnter(1)
  \/ WebhookTurn(1)
  \/ \E o \in TickerOutcomes : GetCurrentPrice(1, o)
  \/ WebhookConfirm(1)
  \/ WebhookRespond(1)
  \/ \E c \in 0..1 : PollCleanup(1, c)
  \/ PollRead(1)
  \/ \E c \in 0..1 : EndCall(1, c)

SpecDialog == Init /\ [][DialogNext]_vars

\* the dialogue with a request thread that keeps running: a pending attempt of
\* get_current_price is made, and a sleep between two attempts returns
SpecLookup ==
  SpecDialog /\ WF_vars(\E o \in TickerOutcomes : GetCurrentPrice(1, o))

----------------------------------------------------------------------------
(* Vocabulary of the properties *)

\* worker w is inside the locked part of a turn on session c
InTurn(w, c) ==
  pc[w] \in {"wh_turn", "gp_attempt", "wh_confirm", "wh_respond"} /\ local[w].call_id = c

MidTurn(c) == \E w \in Workers : InTurn(w, c)

\* the step in which worker w reads the utterance and updates the slots
TurnStep(w) == pc[w] = "wh_turn" /\ pc'[w] # "wh_turn"

AllSet(state) == \A k \in DOMAIN SlotNames : state[SlotNames[k]] # None

\* the utterances of a history, in order
UserTexts(messages) ==
  LET users == SelectSeq(messages, LAMBDA m : m.sender = "user")
  IN  [i \in DOMAIN users |-> users[i].text.chars]

\* the last reply of a history whose last turn is complete
LastReply(messages) == messages[Len(messages)].text

\* a history of n complete turns and nothing in progress
TurnsDone(c, n) ==
  /\ c \in Sessions
  /\ ~MidTurn(c)
  /\ Len(conversation_state[c].messages) = 2 * n + 1

Mentions(reply, slot, value) ==
  /\ reply.kind = "prompt"
  /\ \E k \in DOMAIN reply.ack : reply.ack[k] = Fragment(slot, value)

T_OKX == <<"O","K","X">>

T_BTC_USDT == <<"B","T","C","/","U","S","D","T">>

T_ETH_USDT == <<"E","T","H","/","U","S","D","T">>

----------------------------------------------------------------------------
(* C1 *)

HappyPath == << U_trade_on_okx, U_btc_usdt, U_half, U_at_65000 >>

\* C1 as the specification states it: from a fresh session, "I want to trade
\* on OKX" sets the exchange to okx, leaves the trading pair unset and the
\* reply acknowledges OKX and asks for the trading pair; "BTC/USDT" then asks
\* for the quantity; "0.5" then asks for the price; "at 65000" then ends the
\* session with a confirmation of 0.5 BTC/USDT on OKX at 65000.00.
C1_HappyPath ==
  \A c \in Sessions :
    LET state == conversation_state[c]
        said  == UserTexts(state.messages)
        reply == LastReply(state.messages)
    IN  /\ TurnsDone(c, 1) /\ said = SubSeq(HappyPath, 1, 1)
             => /\ state.exchange = Some("okx")
                /\ state.trading_pair = None
                /\ Mentions(reply, "exchange", T_OKX)
                /\ reply.step = "trading_pair"
        /\ TurnsDone(c, 2) /\ said = SubSeq(HappyPath, 1, 2)
             => reply.kind = "prompt" /\ reply.step = "quantity"
        /\ TurnsDone(c, 3) /\ said = SubSeq(HappyPath, 1, 3)
             => reply.kind = "prompt" /\ reply.step = "price"
        /\ TurnsDone(c, 4) /\ said = HappyPath
             => /\ state.ended
                /\ reply.kind = "confirm"
                /\ reply.quantity = << "0", ".", "5" >>
                /\ reply.trading_pair = T_BTC_USDT
                /\ reply.exchange_display = T_OKX
                /\ reply.price = << "6","5","0","0","0",".","0","0" >>

----------------------------------------------------------------------------
(* C2 *)

\* C2: an accepted turn that is not a correction leaves every slot that was
\* set before the turn as it was, whatever the turn extracted; a slot it
\* changes was unset and gets the turn's candidate.
C2_OrdinaryInputFillsOnly ==
  [][ \A w \in Workers :
        TurnStep(w) /\ ~local'[w].is_correction =>
          LET c      == local[w].call_id
              before == conversation_state[c]
              after  == conversation_state'[c]
              cand   == [ exchange |-> local'[w].exch, trading_pair |-> local'[w].symbol,
                          quantity |-> local'[w].qty, price |-> local'[w].price ]
          IN  \A k \in DOMAIN SlotNames :
                LET sl == SlotNames[k]
                IN  /\ before[sl] # None => after[sl] = before[sl]
                    /\ after[sl] # before[sl] => before[sl] = None /\ after[sl] = cand[sl]
    ]_vars

\* an ordinary turn has extracted a trading pair other than the one the
\* session holds, and the session still holds its own
C2_Witness ==
  \E w \in Workers :
    /\ pc[w] = "wh_respond"
    /\ ~local[w].is_correction
    /\ local[w].symbol # None
    /\ conversation_state[local[w].call_id].trading_pair # None
    /\ conversation_state[local[w].call_id].trading_pair # local[w].symbol

----------------------------------------------------------------------------
(* C3 *)

\* C3: an accepted turn that is a correction leaves every slot for which it
\* extracted a candidate equal to that candidate, set before or not, and
\* leaves every slot without a candidate as it was.
C3_CorrectionOverwrites ==
  [][ \A w \in Workers :
        TurnStep(w) /\ local'[w].is_correction =>
          LET c      == local[w].call_id
              before == conversation_state[c]
              after  == conversation_state'[c]
              cand   == [ exchange |-> local'[w].exch, trading_pair |-> local'[w].symbol,
                          quantity |-> local'[w].qty, price |-> local'[w].price ]
          IN  \A k \in DOMAIN SlotNames :
                LET sl == SlotNames[k]
                IN  after[sl] = IF cand[sl] # None THEN cand[sl] ELSE before[sl]
    ]_vars

\* a correction has replaced the trading pair of a session that was already
\* past the trading-pair step (its previous prompt asked for a later slot)
C3_Witness ==
  \E w \in Workers :
    LET c == local[w].call_id
    IN  /\ pc[w] = "wh_respond"
        /\ local[w].is_correction
        /\ local[w].symbol # None
        /\ conversation_state[c].trading_pair = local[w].symbol
        /\ Len(conversation_state[c].messages) >= 4
        /\ LET m == conversation_state[c].messages
               prev == m[Len(m) - 1].text
           IN  prev.kind = "prompt" /\ prev.step \in {"quantity", "price"}

----------------------------------------------------------------------------
(* C4 *)

\* C4 as the specification states it: in a session whose trading pair is set
\* (its last prompt asked for the quantity or the price), the turn "actually
\* make it ETH/USDT" leaves tradingPair = ETH/USDT and its reply acknowledges
\* "trading pair to ETH/USDT".
C4_CorrectionScenario ==
  \A c \in Sessions :
    LET m == conversation_state[c].messages
    IN  /\ ~MidTurn(c)
        /\ Len(m) >= 5
        /\ m[Len(m) - 1].text = UserText(U_actually_eth)
        /\ m[Len(m) - 2].text.kind = "prompt"
        /\ m[Len(m) - 2].text.step \in {"quantity", "price"}
        => /\ conversation_state[c].trading_pair = Some(T_ETH_USDT)
           /\ Mentions(LastReply(m), "trading pair", T_ETH_USDT)

----------------------------------------------------------------------------
(* C5 *)

\* session c was created and has been ended: it is stored and ended, or the
\* sweep, which removes ended sessions only, has removed it
WasEnded(c) ==
  /\ c \in 1..(next_id - 1)
  /\ c \in Sessions => conversation_state[c].ended

\* this step answers a submit_utterance call on c that had not yet passed the
\* ended check of line 230
AnswersCall(c) ==
  /\ ret'.op = "webhook"
  /\ ret'.call_id = c
  /\ pc[ret'.worker] \in {"idle", "wh_enter"}

\* C5 as the specification states it: once a session is ended, every later
\* submit_utterance call on it, sweeps of get_history included, gets the
\* SessionEnded error and leaves the session as it was.
C5_AlwaysSessionEnded ==
  [][ \A c \in 1..MaxSessions :
        WasEnded(c) /\ AnswersCall(c) =>
          /\ ret'.status = 400
          /\ ret'.error = "Session has ended"
          /\ c \in Sessions /\ c \in Sessions'
          /\ conversation_state'[c] = conversation_state[c]
    ]_vars

\* C5 amended: once a session is ended, no later submit_utterance call on it
\* starts a turn, gets a reply or changes it.  The call gets the SessionEnded
\* error while the session is stored; once the sweep has deleted the session
\* it gets the InvalidSession error, or the KeyError of C9 if the session was
\* deleted between the call's validation and its lookup.
C5_RejectedOnceEnded ==
  [][ /\ \A c \in 1..MaxSessions :
           WasEnded(c) /\ AnswersCall(c) =>
             IF c \in Sessions
             THEN /\ ret'.status = 400
                  /\ ret'.error = "Session has ended"
                  /\ c \in Sessions'
                  /\ conversation_state'[c] = conversation_state[c]
             ELSE /\ c \notin Sessions'
                  /\ IF pc[ret'.worker] = "idle"
                     THEN ret'.status = 400 /\ ret'.error = "Invalid or missing call_id"
                     ELSE ret'.status = 500 /\ ret'.error = "KeyError"
      /\ \A w \in Workers :
           pc[w] = "wh_enter" /\ pc'[w] = "wh_turn" =>
             ~conversation_state[local[w].call_id].ended
    ]_vars

\* a call on a session that a confirmation has ended was answered SessionEnded
C5_Witness ==
  /\ ret.op = "webhook"
  /\ ret.status = 400
  /\ ret.error = "Session has ended"
  /\ ret.call_id \in Sessions
  /\ LastReply(conversation_state[ret.call_id].messages).kind = "confirm"

----------------------------------------------------------------------------
(* C6 *)

Confirmations(c) ==
  Cardinality({ i \in DOMAIN conversation_state[c].messages :
                  conversation_state[c].messages[i].text.kind = "confirm" })

\* the turns on c that have called Price Lookup and not yet appended their reply
Finalizing(c) ==
  Cardinality({ w \in Workers :
                  /\ InTurn(w, c)
                  /\ \/ pc[w] \in {"gp_attempt", "wh_confirm"}
                     \/ pc[w] = "wh_respond" /\ local[w].bot_response.kind = "confirm" })

\* C6: a turn ends with ended = true exactly when all four slots are set
\* after its updates; a session that is not ended and has no turn in
\* progress never has all four slots set; a session is finalized (Price
\* Lookup called, confirmation appended) at most once.
C6_FinalizedIffAllSet ==
  \A c \in Sessions :
    /\ \A w \in Workers :
         InTurn(w, c) /\ pc[w] = "wh_respond" =>
           (conversation_state[c].ended <=> AllSet(conversation_state[c]))
    /\ ~MidTurn(c) /\ ~conversation_state[c].ended => ~AllSet(conversation_state[c])
    /\ Confirmations(c) + Finalizing(c) <= 1

\* a turn that filled the last slot is about to reply, the session ended
C6_Witness ==
  \E c \in Sessions, w \in Workers :
    /\ InTurn(w, c)
    /\ pc[w] = "wh_respond"
    /\ AllSet(conversation_state[c])
    /\ conversation_state[c].ended
    /\ local[w].updated_slots # << >>

----------------------------------------------------------------------------
(* C7 *)

FirstUnset(state) ==
  IF state.exchange = None THEN "exchange"
  ELSE IF state.trading_pair = None THEN "trading_pair"
  ELSE IF state.quantity = None THEN "quantity"
  ELSE IF state.price = None THEN "price"
  ELSE "none"

\* C7: whenever no turn is in progress on a session that is not ended, its
\* currentStep is the first unset slot in the order exchange, tradingPair,
\* quantity, price.
C7_CurrentStepIsFirstUnset ==
  \A c \in Sessions :
    ~MidTurn(c) /\ ~conversation_state[c].ended =>
      conversation_state[c].current_step = FirstUnset(conversation_state[c])

\* after an accepted turn the session waits for the price while its earlier
\* slots are set
C7_Witness ==
  \E c \in Sessions :
    /\ TurnsDone(c, 2)
    /\ ~conversation_state[c].ended
    /\ conversation_state[c].current_step = "price"
    /\ conversation_state[c].quantity # None

----------------------------------------------------------------------------
(* C8 *)

\* the greeting, then user and bot entries in turn
Alternates(messages) ==
  /\ messages[1] = [sender |-> "bot", text |-> Greeting]
  /\ \A i \in 2..Len(messages) :
       messages[i].sender = IF i % 2 = 0 THEN "user" ELSE "bot"

\* C8: a history never shrinks and never changes an entry; the step of a
\* turn that reads the utterance appends one user entry, the step that ends
\* the turn appends one bot entry, and no other step (a rejected turn,
\* get_history, end_session, a step of another worker) appends anything; so
\* every history is the greeting followed by user and bot entries in turn,
\* with the bot entry missing only while that turn is in progress.
C8_HistoryAppendOnly ==
  /\ [](\A c \in Sessions :
          LET messages == conversation_state[c].messages
          IN  /\ Alternates(messages)
              /\ (Len(messages) % 2 = 0) <=>
                   \E w \in Workers : InTurn(w, c) /\ pc[w] # "wh_turn")
  /\ [][ \A c \in Sessions \cap Sessions' :
           LET before == conversation_state[c].messages
               after  == conversation_state'[c].messages
           IN  IF \E w \in Workers : InTurn(w, c) /\ TurnStep(w)
               THEN \E w \in Workers :
                      /\ InTurn(w, c) /\ TurnStep(w)
                      /\ after = Append(before, [sender |-> "user",
                                                 text |-> UserText(local[w].transcript)])
               ELSE IF \E w \in Workers : InTurn(w, c) /\ pc[w] = "wh_respond"
                                            /\ pc'[w] = "idle"
               THEN after = Append(before, [sender |-> "bot", text |-> ret'.response])
               ELSE after = before
       ]_vars

\* two turns of one session are complete
C8_Witness == \E c \in Sessions : TurnsDone(c, 2)

----------------------------------------------------------------------------
(* C9 *)

\* C9 as the specification states it: every submit_utterance call ends with a
\* reply, the invalid-session error or the session-ended error.
C9_ThreeOutcomes ==
  ret.op = "webhook" =>
    \/ ret.status = 200
    \/ ret.status = 400 /\ ret.error \in {"Invalid or missing call_id", "Session has ended"}

----------------------------------------------------------------------------
(* C10 *)

LookupFailed == Some("failed to fetch price")

\* C10: a turn whose Price Lookup failed, which it does after its third
\* attempt only, still replies with the order confirmation, carrying the
\* "couldn't fetch price" warning in place of the market price, and still
\* ends the session.
C10_FailureStillConfirms ==
  \A w \in Workers :
    /\ pc[w] \in {"wh_confirm", "wh_respond"} /\ local[w].error # None
         => /\ local[w].error = LookupFailed
            /\ local[w].current_price = None
            /\ local[w].attempt = retries - 1
    /\ pc[w] = "wh_respond" /\ local[w].error # None
         => /\ local[w].bot_response.kind = "confirm"
            /\ local[w].bot_response.market = None
            /\ local[w].bot_response.warning = Some(LookupFailed)
            /\ conversation_state[local[w].call_id].ended

\* a turn whose lookup failed three times is about to send its confirmation
C10_Witness ==
  \E w \in Workers :
    /\ pc[w] = "wh_respond"
    /\ local[w].error = LookupFailed
    /\ local[w].waits = << 1, 2 >>
    /\ local[w].bot_response.kind = "confirm"

----------------------------------------------------------------------------
(* C11 *)

\* the place of a step in the priority order of line 292
StepIndex(step) == CHOOSE k \in DOMAIN SlotNames : SlotNames[k] = step

\* C11 as the specification states it: a turn that moves currentStep to a
\* later slot leaves retryCount = 0, and so does the finalizing turn.
C11_RetryResetOnAdvance ==
  [][ \A c \in Sessions : \A w \in Workers :
        InTurn(w, c) =>
          /\ TurnStep(w) /\ StepIndex(conversation_state'[c].current_step)
                              > StepIndex(conversation_state[c].current_step)
               => conversation_state'[c].retry_count = 0
          /\ pc[w] = "wh_confirm" /\ pc'[w] = "wh_respond"
               => conversation_state'[c].retry_count = 0
    ]_vars

----------------------------------------------------------------------------
(* C12 *)

\* the step in which worker w ends a turn that leaves a slot missing
PromptStep(w) == pc[w] = "wh_turn" /\ pc'[w] = "wh_respond"

\* C12: the prompt of a non-finalizing turn is the phrasing at index
\* min(retryCount, 2) of the prompted step, so the index never exceeds 2; and
\* when the turn and the turn before it both updated no slot, the phrasing is
\* the third one (index 2).
C12_PromptIndexCapped ==
  [][ \A c \in Sessions : \A w \in Workers :
        InTurn(w, c) /\ PromptStep(w) /\ local'[w].bot_response.kind = "prompt" =>
          LET reply == local'[w].bot_response
              rc    == conversation_state'[c].retry_count
              prev  == LastReply(conversation_state[c].messages)
          IN  /\ reply.step = conversation_state'[c].current_step
              /\ reply.idx = IF rc <= 2 THEN rc ELSE 2
              /\ reply.idx \in 0..2
              /\ prev.kind = "prompt" /\ prev.ack = << >> /\ reply.ack = << >>
                   => reply.idx = 2
    ]_vars

\* after three turns in a row that supplied nothing, retryCount is 3 and the
\* last prompt is still the third phrasing
C12_Witness ==
  \E c \in Sessions :
    /\ TurnsDone(c, 3)
    /\ conversation_state[c].retry_count = 3
    /\ LastReply(conversation_state[c].messages).kind = "prompt"
    /\ LastReply(conversation_state[c].messages).ack = << >>
    /\ LastReply(conversation_state[c].messages).idx = 2

----------------------------------------------------------------------------
(* C13 *)

\* the sessions this step removes from the dict
Removed == Sessions \ DOMAIN conversation_state'

\* this step is the sweep that opens a get_history call
SweepStep == \E w \in Workers : pc[w] = "idle" /\ pc'[w] = "poll_read"

\* C13: a session is removed by the sweep of get_history only, and every
\* session the sweep removes is ended, more than 300 s past its creation and
\* has no turn in progress; so a session that is not ended is never removed.
\* (A turn is in progress from its ended check to its reply; a call that has
\* only passed line 223 is on an ended session when the sweep removes it.)
C13_SweepRemovesOnlyExpired ==
  [][ \A c \in Removed :
        /\ SweepStep
        /\ conversation_state[c].ended
        /\ now - conversation_state[c].created > 300
        /\ ~MidTurn(c)
    ]_vars

\* the sweep has removed one session and, at the same time, kept another that
\* is ended as well but not yet old enough, and one that is old but not ended
C13_Witness ==
  /\ \E c \in 1..(next_id - 1) : c \notin Sessions
  /\ \E c \in Sessions :
       \/ conversation_state[c].ended /\ now - conversation_state[c].created <= 300
       \/ ~conversation_state[c].ended /\ now - conversation_state[c].created > 300

----------------------------------------------------------------------------
(* C14 *)

\* C14: end_session on a known session sets ended and changes nothing else of
\* it or of any other session: slots, history, currentStep and retryCount stay,
\* no Price Lookup starts and no confirmation is appended; on an unknown id it
\* answers not_found and changes no session.
C14_EndSessionFrame ==
  [][ ret'.op = "end_call" =>
        /\ pc' = pc /\ local' = local
        /\ IF ret'.call_id \in Sessions
           THEN /\ ret'.status = 200
                /\ conversation_state' =
                     [conversation_state EXCEPT ![ret'.call_id].ended = TRUE]
           ELSE /\ ret'.status = 404
                /\ conversation_state' = conversation_state
    ]_vars

\* end_session has just ended a session that was still collecting, with a slot
\* set, a slot missing and a retry counted
C14_Witness ==
  /\ ret.op = "end_call" /\ ret.status = 200
  /\ ret.call_id \in Sessions
  /\ LET state == conversation_state[ret.call_id]
     IN  /\ state.ended
         /\ state.retry_count >= 1
         /\ state.exchange # None
         /\ ~AllSet(state)
         /\ LastReply(state.messages).kind = "prompt"

----------------------------------------------------------------------------
(* C15 *)

\* this step is a step of somebody other than worker w
OthersStep(w) == pc'[w] = pc[w] /\ local'[w] = local[w]

\* C15: a session has at most one turn in flight, and from the ended check of
\* a turn to its reply, Price Lookup and its waits included, no step of
\* anybody else changes the session or answers a request on it.
C15_OneTurnInFlight ==
  /\ [](\A c \in CallIds : Cardinality({ w \in Workers : InTurn(w, c) }) <= 1)
  /\ [][ \A c \in Sessions : \A w \in Workers :
           InTurn(w, c) /\ OthersStep(w) =>
             /\ c \in DOMAIN conversation_state'
             /\ conversation_state'[c] = conversation_state[c]
             /\ ret'.op # "none" => ret'.call_id # c
       ]_vars

\* a turn is waiting between two attempts of Price Lookup while another
\* worker has a request on the same session pending
C15_Witness ==
  \E w \in Workers : \E v \in Workers \ {w} :
    /\ pc[w] = "gp_attempt"
    /\ local[w].waits # << >>
    /\ pc[v] \in {"wh_enter", "poll_read"}
    /\ local[v].call_id = local[w].call_id

----------------------------------------------------------------------------
(* C16 *)

\* the utterance holds one number and does not contain "at"
LoneNumber(transcript) ==
  /\ Len(ExtractTable[transcript].numbers) = 1
  /\ ExtractTable[transcript].numbers[1] # None
  /\ ~ExtractTable[transcript].at

\* C16 as the specification states it: a turn on a lone number leaves the
\* quantity slot as it was when the quantity is already known (the number is
\* a price candidate only), correction or not, and leaves the price slot as it
\* was when no quantity is known yet (the number is the quantity candidate
\* only).
C16_LoneNumberOneSlot ==
  [][ \A c \in Sessions : \A w \in Workers :
        InTurn(w, c) /\ TurnStep(w) /\ LoneNumber(local[w].transcript) =>
          IF conversation_state[c].quantity # None
          THEN conversation_state'[c].quantity = conversation_state[c].quantity
          ELSE conversation_state'[c].price = conversation_state[c].price
    ]_vars

----------------------------------------------------------------------------
(* C17 *)

\* the step in which worker w ends the session with a confirmation
FinalizeStep(w) == pc[w] = "wh_confirm" /\ pc'[w] = "wh_respond"

----------------------------------------------------------------------------
(* C18 *)

\* the waits of get_current_price after its first k failed attempts
Backoff(k) == SubSeq(<< 1, 2 >>, 1, k)

\* C18: Price Lookup makes at most 3 attempts; after k failed attempts it has
\* waited 1 unit after the first and 2 units after the second; it returns the
\* price at the first attempt that succeeds, and the failure after the third
\* failed attempt only, without a wait after it; and it always returns.
C18_LookupBounded ==
  /\ [](\A w \in Workers :
          /\ pc[w] = "gp_attempt" =>
               /\ local[w].attempt \in 0..2
               /\ local[w].waits = Backoff(local[w].attempt)
               /\ local[w].current_price = None /\ local[w].error = None
          /\ pc[w] = "wh_confirm" =>
               /\ local[w].attempt \in 0..2
               /\ local[w].waits = Backoff(local[w].attempt)
               /\ (local[w].error = None) # (local[w].current_price = None)
               /\ local[w].error # None =>
                    local[w].attempt = 2 /\ local[w].waits = << 1, 2 >>)
  /\ [][ \A w \in Workers :
           pc[w] = "gp_attempt" /\ local'[w] # local[w] =>
             \/ /\ pc'[w] = "gp_attempt"
                /\ local'[w].attempt = local[w].attempt + 1
                /\ Len(local'[w].waits) = Len(local[w].waits) + 1
             \/ /\ pc'[w] = "wh_confirm"
                /\ local'[w].attempt = local[w].attempt
                /\ local'[w].waits = local[w].waits
       ]_vars
  /\ \A w \in Workers : pc[w] = "gp_attempt" ~> pc[w] = "wh_confirm"

\* the lookup has returned a price at its second attempt, after one wait of 1
C18_Witness ==
  \E w \in Workers :
    /\ pc[w] = "wh_confirm"
    /\ local[w].current_price = Some(MarketPrice)
    /\ local[w].attempt = 1
    /\ local[w].waits = << 1 >>

----------------------------------------------------------------------------
(* C19 *)

\* a reply the bot may send: no generic fallback, and the first phrasing of a
\* step (index 0) only behind an acknowledgment
Scripted(reply) ==
  /\ reply.kind # "fallback"
  /\ reply.kind = "prompt" /\ reply.ack = << >> => reply.idx >= 1

\* C19: the "Sorry, I didn't catch that" fallback is never produced: when a
\* turn that updated no slot selects its prompt, retryCount is at least 1
\* already, so a scripted prompt of index 1 or 2 is sent; the first phrasing is
\* only sent together with an acknowledgment.
C19_NoFallback ==
  /\ \A w \in Workers :
       /\ Scripted(local[w].bot_response)
       /\ pc[w] = "wh_respond" /\ local[w].bot_response.kind = "prompt"
            /\ local[w].updated_slots = << >>
            => /\ conversation_state[local[w].call_id].retry_count >= 1
               /\ local[w].bot_response.ack = << >>
  /\ \A c \in Sessions :
       \A k \in DOMAIN conversation_state[c].messages :
         Scripted(conversation_state[c].messages[k].text)
  /\ ret.op = "webhook" /\ ret.status = 200 => Scripted(ret.response)

\* the first turn of a session supplied nothing and was answered with the
\* second phrasing of the exchange prompt
C19_Witness ==
  \E c \in Sessions :
    /\ TurnsDone(c, 1)
    /\ conversation_state[c].retry_count = 1
    /\ LastReply(conversation_state[c].messages)
         = [kind |-> "prompt", ack |-> << >>, step |-> "exchange", idx |-> 1, pair |-> None]

-----------------------------------------------------------------------------
(* C20                                                                     *)

\* worker w is past the point of its turn where the order was found complete
PastCompletion(w) ==
  \/ pc[w] \in {"gp_attempt", "wh_confirm"}
  \/ pc[w] = "wh_respond" /\ local[w].bot_response.kind = "confirm"

====
